---- MODULE Spec2Model ----
(***************************************************************************)
(* Labelling tool (songyanteng/labelling-tool): the session state, the     *)
(* rating store mirrored to localStorage, progress, navigation and the     *)
(* dataset loads, as a state machine with one action per event handler.    *)
(*                                                                         *)
(* The repository ships two variants of the script:                        *)
(*   "current" : src/unnamed/part_000 (too-short / promotional /           *)
(*               engagement flags, rater-id backfill, Melbourne time)      *)
(*   "legacy"  : src/script.js                                             *)
(* A session runs one of them; both use the same localStorage key, so a    *)
(* session may start from storage the other variant left behind.           *)
(*                                                                         *)
(* JavaScript values are tagged records [t, v] (v the String() of the      *)
(* value), JavaScript objects are functions from the names of the fields   *)
(* they have to such values; a field an object lacks reads as undefined.   *)
(* DOM form controls keep their DOM types: radio groups are strings ("" =  *)
(* nothing checked), checkboxes are booleans.  The four checkboxes are     *)
(* controls outside ratingsForm (clearForm resets them by hand and the     *)
(* too-short handler relies on form.reset() leaving its own box checked).  *)
(***************************************************************************)
EXTENDS Integers, Sequences, FiniteSets, TLC

VARIABLES
    variant,              \* which script the page runs
    dataset,              \* let dataset = []
    index,                \* let index = 0 (0-based cursor)
    form,                 \* ratingsForm radio groups: category, valence, subcategory
    flagCheckbox,         \* elements.flagCheckbox.checked
    tooShortCheckbox,     \* elements.tooShortCheckbox.checked
    promotionalCheckbox,  \* elements.promotionalCheckbox.checked
    engagementCheckbox,   \* elements.engagementCheckbox.checked
    ratingsById,          \* state.ratingsById
    raterId,              \* state.raterId
    storage,              \* localStorage[STORAGE_KEY]
    pending,              \* dataset loads in flight, in request order
    delivered,            \* the array the last successful load handed to setDataset
    touched,              \* << cursor, key >> of every save of the session
    raw,                  \* an array of raw records on its way through sanitizeItem
    progress,             \* what updateProgress last displayed
    lastOp,               \* the handler that ran last and what it reported
    now                   \* the clock: every event is handled at a later instant

vars == << variant, dataset, index, form, flagCheckbox, tooShortCheckbox,
           promotionalCheckbox, engagementCheckbox, ratingsById, raterId,
           storage, pending, delivered, touched, raw, progress, lastOp, now >>

-----------------------------------------------------------------------------
(* Bounds of the model                                                     *)

MaxEvents == 5     \* events handled in one session
MaxDelta == 3      \* the largest |delta| go(delta) is tried with
MaxRaw == 2        \* the longest array of raw records sanitized

-----------------------------------------------------------------------------
(* JavaScript values                                                       *)

JUndef == [t |-> "undefined", v |-> "undefined"]
JNull == [t |-> "null", v |-> "null"]
JStr(s) == [t |-> "string", v |-> s]
JNum(n) == [t |-> "number", v |-> ToString(n)]
JBool(b) == [t |-> "boolean", v |-> IF b THEN "true" ELSE "false"]

\* x ?? y
Coalesce(x, y) == IF x.t \in {"undefined", "null"} THEN y ELSE x

\* ToBoolean(x)
Truthy(x) ==
    /\ x.t \notin {"undefined", "null"}
    /\ ~(x.t = "string" /\ x.v = "")
    /\ ~(x.t = "number" /\ x.v \in {"0", "NaN"})
    /\ ~(x.t = "boolean" /\ x.v = "false")

\* x || y
OrElse(x, y) == IF Truthy(x) THEN x ELSE y

\* `${x}`
TemplateStr(x) == x.v

\* obj.f
Get(obj, f) == IF f \in DOMAIN obj THEN obj[f] ELSE JUndef

\* obj.f = v
SetField(obj, f, val) ==
    [g \in DOMAIN obj \cup {f} |-> IF g = f THEN val ELSE obj[g]]

EmptyObject == [g \in {} |-> JUndef]

-----------------------------------------------------------------------------
(* Text inputs: a text is a sequence of one-character strings              *)

Digits == {"0", "1", "2", "3", "4", "5", "6", "7", "8", "9"}
Whitespace == {" "}

DigitValue(c) ==
    CASE c = "0" -> 0 [] c = "1" -> 1 [] c = "2" -> 2 [] c = "3" -> 3
      [] c = "4" -> 4 [] c = "5" -> 5 [] c = "6" -> 6 [] c = "7" -> 7
      [] c = "8" -> 8 [] c = "9" -> 9

RECURSIVE TrimStart(_)
TrimStart(txt) ==
    IF txt # << >> /\ Head(txt) \in Whitespace THEN TrimStart(Tail(txt)) ELSE txt

RECURSIVE TrimEnd(_)
TrimEnd(txt) ==
    IF txt # << >> /\ txt[Len(txt)] \in Whitespace
    THEN TrimEnd(SubSeq(txt, 1, Len(txt) - 1))
    ELSE txt

\* String.prototype.trim
Trim(txt) == TrimEnd(TrimStart(txt))

RECURSIVE Join(_)
Join(txt) == IF txt = << >> THEN "" ELSE Head(txt) \o Join(Tail(txt))

RECURSIVE DigitPrefix(_, _)
\* the value of the longest prefix of digits of txt, read after acc
DigitPrefix(txt, acc) ==
    IF txt # << >> /\ Head(txt) \in Digits
    THEN DigitPrefix(Tail(txt), 10 * acc + DigitValue(Head(txt)))
    ELSE acc

\* parseInt(txt, 10): [nan |-> TRUE] when no digits follow the optional sign
ParseInt(txt) ==
    LET s == TrimStart(txt)
        neg == s # << >> /\ Head(s) = "-"
        body == IF s # << >> /\ Head(s) \in {"-", "+"} THEN Tail(s) ELSE s
    IN  IF body = << >> \/ Head(body) \notin Digits
        THEN [nan |-> TRUE, n |-> 0]
        ELSE [nan |-> FALSE,
              n |-> IF neg THEN 0 - DigitPrefix(body, 0) ELSE DigitPrefix(body, 0)]

\* what the user may type into the jump box
JumpTexts == { << >>, <<"0">>, <<"1">>, <<"2", "x">>, <<"3">> }

\* what the user may type into the rater-id box
RaterTexts == { <<" ">>, <<"r", "1">>, <<" ", "r", "2", " ">> }

-----------------------------------------------------------------------------
(* The rating form                                                         *)

\* the values of the radio inputs of ratingsForm
CategoryValues == {"1", "2"}
ValenceValues == {"pos"}
SubcategoryValues == {"x"}

\* /[23]$/.test(category), over the radio values
NeedsSub(category) == category \in {"2", "3"}

\* form.reset() plus the checkboxes as they stand
ResetRadios(ui) ==
    [ui EXCEPT !.category = "", !.valence = "", !.subcategory = ""]

HasExtraCheckboxes(v) == v = "current"

\* clearForm without ratingsForm.reset(): only the added checkboxes are reset
clearForm_KeepsRadios(v, ui) ==
    IF HasExtraCheckboxes(v)
    THEN [ui EXCEPT !.tooShort = FALSE, !.promotional = FALSE, !.engagement = FALSE]
    ELSE ui

clearForm(v, ui) ==
    IF HasExtraCheckboxes(v)
    THEN [ResetRadios(ui) EXCEPT !.tooShort = FALSE, !.promotional = FALSE,
                                 !.engagement = FALSE]
    ELSE ResetRadios(ui)

getFormValues(ui) ==
    LET needsSub == NeedsSub(ui.category)
    IN  [category |-> ui.category,
         valence |-> ui.valence,
         subcategory |-> IF needsSub THEN ui.subcategory ELSE "",
         needsSub |-> needsSub]

\* querySelector(`input[name=...][value=...]`) finds a radio, which is checked
CheckRadio(current, wanted, radios) ==
    IF Truthy(wanted) /\ wanted.t = "string" /\ wanted.v \in radios
    THEN wanted.v
    ELSE current

applyToForm(v, ui, values) ==
    LET c == clearForm(v, ui)
    IN  [c EXCEPT
            !.category = CheckRadio(c.category, Get(values, "category"), CategoryValues),
            !.valence = CheckRadio(c.valence, Get(values, "valence"), ValenceValues),
            !.subcategory =
                CheckRadio(c.subcategory, Get(values, "subcategory"), SubcategoryValues)]

-----------------------------------------------------------------------------
(* Items, keys and rating records                                          *)

\* x is a JSON primitive (a tagged value), not an object
IsPrimitive(x) == DOMAIN x = {"t", "v"}

\* { ...x }: a copy of the fields of an object, no field for null or a number
Spread(x) == IF IsPrimitive(x) THEN EmptyObject ELSE x

\* sanitizeItem without the reset of a content that is no string
sanitizeItem_KeepsContent(item) ==
    LET clean == Spread(item)
    IN  IF Get(clean, "transcription").t # "string"
        THEN SetField(clean, "transcription", JNull)
        ELSE clean

sanitizeItem(item) ==
    LET clean == Spread(item)
        c1 == IF Get(clean, "transcription").t # "string"
              THEN SetField(clean, "transcription", JNull)
              ELSE clean
    IN  IF Get(c1, "content").t # "string"
        THEN SetField(c1, "content", JStr(""))
        ELSE c1

\* a call of sanitizeItem: what it returns and its argument after the call
\* (the assignments go to the copy `clean`)
sanitizeItemCall(item) == [returned |-> sanitizeItem(item), argument |-> item]

\* a key made of the position alone, whatever id the item has
makeKey_IgnoresId(item, idx) ==
    TemplateStr(JNum(idx)) \o "|"
        \o TemplateStr(Coalesce(Get(item, "uid"), JStr("")))

\* makeKey reads the module-level cursor: idx is the value of `index` at the call
makeKey(item, idx) ==
    TemplateStr(Coalesce(Get(item, "id"), JNum(idx))) \o "|"
        \o TemplateStr(Coalesce(Get(item, "uid"), JStr("")))

\* s || null, for a DOM string s
StrOrNull(s) == IF s = "" THEN JNull ELSE JStr(s)

melbourneNowISO(clock) == JStr("T" \o ToString(clock) \o "+10:00")

\* new Date().toISOString()
toISOString(clock) == JStr("T" \o ToString(clock) \o "Z")

Timestamp(v, clock) ==
    IF v = "current" THEN melbourneNowISO(clock) ELSE toISOString(clock)

\* validate without its valence check
validate_NoValenceCheck(v, values, ui) ==
    IF v = "current" /\ ui.tooShort THEN [ok |-> TRUE, message |-> ""]
    ELSE IF values.category = ""
    THEN [ok |-> FALSE, message |-> "Please select a Category."]
    ELSE IF values.needsSub /\ values.subcategory = ""
    THEN [ok |-> FALSE, message |-> "Please select a Subcategory."]
    ELSE [ok |-> TRUE, message |-> ""]

validate(v, values, ui) ==
    IF v = "current" /\ ui.tooShort THEN [ok |-> TRUE, message |-> ""]
    ELSE IF values.category = ""
    THEN [ok |-> FALSE, message |-> "Please select a Category."]
    ELSE IF values.valence = ""
    THEN [ok |-> FALSE, message |-> "Please select a Valence."]
    ELSE IF values.needsSub /\ values.subcategory = ""
    THEN [ok |-> FALSE, message |-> "Please select a Subcategory."]
    ELSE [ok |-> TRUE, message |-> ""]

\* isComplete computed without regard to a needed subcategory
PartialIsComplete_IgnoresSub(v, values, ui) ==
    \/ /\ values.category # ""
       /\ values.valence # ""
    \/ (v = "current" /\ ui.tooShort)

\* the isComplete computed by savePartialProgress
PartialIsComplete(v, values, ui) ==
    \/ /\ values.category # ""
       /\ values.valence # ""
       /\ (~values.needsSub \/ values.subcategory # "")
    \/ (v = "current" /\ ui.tooShort)

\* the record of savePartialProgress without the too-short override of the fields
PartialRecord_KeepsFields(v, item, idx, ui, rid, clock) ==
    LET values == getFormValues(ui)
    IN  [itemIndex |-> JNum(idx),
         id |-> Coalesce(Get(item, "id"), JNull),
         uid |-> Coalesce(Get(item, "uid"), JNull),
         category |-> StrOrNull(values.category),
         valence |-> StrOrNull(values.valence),
         subcategory |-> IF values.needsSub THEN StrOrNull(values.subcategory)
                         ELSE JNull,
         flagged |-> JBool(ui.flag),
         isComplete |-> JBool(PartialIsComplete(v, values, ui)),
         raterId |-> OrElse(rid, JNull),
         timestamp |-> Timestamp(v, clock),
         tooShort |-> JBool(ui.tooShort),
         promotional |-> JBool(ui.promotional),
         engagement |-> JBool(ui.engagement)]

\* the object literal savePartialProgress stores
PartialRecord(v, item, idx, ui, rid, clock) ==
    LET values == getFormValues(ui)
        isTooShort == v = "current" /\ ui.tooShort
        common ==
            [itemIndex |-> JNum(idx),
             id |-> Coalesce(Get(item, "id"), JNull),
             uid |-> Coalesce(Get(item, "uid"), JNull),
             category |-> IF isTooShort THEN JNull ELSE StrOrNull(values.category),
             valence |-> IF isTooShort THEN JNull ELSE StrOrNull(values.valence),
             subcategory |->
                 IF isTooShort THEN JNull
                 ELSE IF values.needsSub THEN StrOrNull(values.subcategory)
                 ELSE JNull,
             flagged |-> JBool(ui.flag),
             isComplete |-> JBool(PartialIsComplete(v, values, ui)),
             raterId |-> OrElse(rid, JNull),
             timestamp |-> Timestamp(v, clock)]
    IN  IF v = "current"
        THEN common @@ [tooShort |-> JBool(ui.tooShort),
                        promotional |-> JBool(ui.promotional),
                        engagement |-> JBool(ui.engagement)]
        ELSE common

\* the object literal saveCurrent stores (it has no isComplete field)
StrictRecord(v, item, idx, ui, rid, clock) ==
    LET values == getFormValues(ui)
        isTooShort == v = "current" /\ ui.tooShort
        common ==
            [itemIndex |-> JNum(idx),
             id |-> Coalesce(Get(item, "id"), JNull),
             uid |-> Coalesce(Get(item, "uid"), JNull),
             category |-> IF isTooShort THEN JNull ELSE JStr(values.category),
             valence |-> IF isTooShort THEN JNull ELSE JStr(values.valence),
             subcategory |->
                 IF isTooShort THEN JNull
                 ELSE IF values.needsSub THEN JStr(values.subcategory)
                 ELSE JNull,
             raterId |-> OrElse(rid, JNull),
             timestamp |-> Timestamp(v, clock)]
    IN  IF v = "current"
        THEN common @@ [flagged |-> JBool(ui.flag),
                        tooShort |-> JBool(ui.tooShort),
                        promotional |-> JBool(ui.promotional),
                        engagement |-> JBool(ui.engagement)]
        ELSE common

\* an assignment that replaces the whole store by the one record
Upsert_DropsOthers(ratings, key, record) ==
    [k \in {key} |-> record]

\* state.ratingsById[key] = record
Upsert(ratings, key, record) ==
    [k \in DOMAIN ratings \cup {key} |-> IF k = key THEN record ELSE ratings[k]]

\* propagateRaterIdAcrossRatings that replaces the record instead of assigning
\* its raterId field
propagateRaterIdAcrossRatings_Replaces(ratings, rid) ==
    LET current == OrElse(rid, JNull)
    IN  [k \in DOMAIN ratings |->
            IF Get(ratings[k], "raterId") # current
            THEN SetField(EmptyObject, "raterId", current)
            ELSE ratings[k]]

propagateRaterIdAcrossRatings(ratings, rid) ==
    LET current == OrElse(rid, JNull)
    IN  [k \in DOMAIN ratings |->
            IF Get(ratings[k], "raterId") # current
            THEN SetField(ratings[k], "raterId", current)
            ELSE ratings[k]]

-----------------------------------------------------------------------------
(* Durable storage: the item under STORAGE_KEY                             *)
(*   kind "absent"    : getItem returns null                               *)
(*   kind "corrupt"   : a text JSON.parse throws on                        *)
(*   kind "nonobject" : a text that parses to a primitive                  *)
(*   kind "object"    : a text that parses to {ratingsById, raterId}       *)

NoStore == [k \in {} |-> EmptyObject]

StorageAbsent == [kind |-> "absent", ratingsById |-> NoStore, raterId |-> JUndef]
StorageCorrupt == [kind |-> "corrupt", ratingsById |-> NoStore, raterId |-> JUndef]
StorageNonObject == [kind |-> "nonobject", ratingsById |-> NoStore, raterId |-> JUndef]

\* JSON.stringify of an object: a field whose value is undefined is left out
StringifyObject(obj) ==
    [g \in {f \in DOMAIN obj : obj[f].t # "undefined"} |-> obj[g]]

\* saveState leaving raterId out of the item it writes
saveState_OmitsRaterId(ratings, rid) ==
    [kind |-> "object",
     ratingsById |-> [k \in DOMAIN ratings |-> StringifyObject(ratings[k])],
     raterId |-> JUndef]

\* the item saveState writes
saveState(ratings, rid) ==
    [kind |-> "object",
     ratingsById |-> [k \in DOMAIN ratings |-> StringifyObject(ratings[k])],
     raterId |-> rid]

\* loadState without its try/catch: the exception of JSON.parse escapes
loadState_NoCatch(item) ==
    IF item.kind = "object"
    THEN [ratingsById |-> item.ratingsById,
          raterId |-> OrElse(item.raterId, JStr("")),
          threw |-> FALSE]
    ELSE [ratingsById |-> NoStore, raterId |-> JStr(""),
          threw |-> item.kind = "corrupt"]

\* loadState: the session state read from the stored item, or the empty state;
\* threw: an exception left the function (the catch lets none out)
loadState(item) ==
    IF item.kind = "object"
    THEN [ratingsById |-> item.ratingsById,
          raterId |-> OrElse(item.raterId, JStr("")),
          threw |-> FALSE]
    ELSE [ratingsById |-> NoStore, raterId |-> JStr(""), threw |-> FALSE]

\* the session state and the stored item the script's last lines leave:
\* loadState, and in the current script the rater-id backfill and saveState
StartSession(v, item) ==
    LET loaded == loadState(item)
        filled == IF v = "current"
                  THEN propagateRaterIdAcrossRatings(loaded.ratingsById,
                                                     loaded.raterId)
                  ELSE loaded.ratingsById
    IN  [ratingsById |-> filled,
         raterId |-> loaded.raterId,
         storage |-> IF v = "current" THEN saveState(filled, loaded.raterId)
                     ELSE item,
         threw |-> loaded.threw]

-----------------------------------------------------------------------------
(* Progress                                                                *)

\* Math.round(done / total * 100): round half up (exact for the totals modelled)
RoundPercent(done, total) == (200 * done + total) \div (2 * total)

updateProgress(ds, ratings, idx) ==
    LET total == Len(ds)
        counted == { i \in 1..Len(ds) :
                        LET key == makeKey(ds[i], idx)
                        IN  /\ key \in DOMAIN ratings
                            /\ Truthy(Get(ratings[key], "isComplete")) }
        done == Cardinality(counted)
    IN  [done |-> done,
         total |-> total,
         percent |-> IF total # 0 THEN RoundPercent(done, total) ELSE 0]

-----------------------------------------------------------------------------
(* Export                                                                  *)

RECURSIVE ObjectValues(_)
\* Object.values(obj) as an array; the order of the keys is not modelled
ObjectValues(obj) ==
    IF DOMAIN obj = {} THEN << >>
    ELSE LET k == CHOOSE key \in DOMAIN obj : TRUE
         IN  << obj[k] >> \o ObjectValues([j \in DOMAIN obj \ {k} |-> obj[j]])

\* the entry exportJson makes of record r
ExportEntry(v, r, rid) ==
    IF v = "current"
    THEN SetField(r, "raterId", OrElse(rid, OrElse(Get(r, "raterId"), JNull)))
    ELSE r

\* the payload exportJson serialises into the download
exportJson(v, ratings, rid, ds, clock) ==
    [raterId |-> OrElse(rid, JNull),
     createdAt |-> Timestamp(v, clock),
     datasetSize |-> JNum(Len(ds)),
     ratings |-> ObjectValues([k \in DOMAIN ratings |->
                                 StringifyObject(ExportEntry(v, ratings[k], rid))])]

-----------------------------------------------------------------------------
(* Dataset texts: what a fetch of sample_twenty.json or a file read may    *)
(* deliver.  parse = "malformed": JSON.parse throws; "nonarray": the root  *)
(* is not an array; "array": items are the parsed elements, a bareword NaN *)
(* still standing where the text has one.                                  *)

NaNToken == [t |-> "bareword", v |-> "NaN"]

ItemsWithIds ==
    << [id |-> JNum(1), content |-> JStr("a")],
       [id |-> JNum(2), content |-> JStr("b")] >>

ItemsWithoutIds ==
    << [uid |-> JStr("a"), content |-> JStr("a"), transcription |-> NaNToken],
       [uid |-> JStr("b"), content |-> JStr("b")] >>

ItemsRepeated ==
    << [id |-> JNum(1), uid |-> JStr("a"), content |-> JStr("a")],
       [id |-> JNum(1), uid |-> JStr("a"), content |-> JStr("a")],
       [uid |-> JStr("a"), content |-> JNum(5)] >>

NoItems == [i \in {} |-> EmptyObject]

DatasetTexts ==
    { [parse |-> "malformed", items |-> NoItems],
      [parse |-> "nonarray", items |-> NoItems],
      [parse |-> "array", items |-> ItemsWithIds],
      [parse |-> "array", items |-> ItemsWithoutIds],
      [parse |-> "array", items |-> ItemsRepeated] }

\* text.replace(/\bNaN\b/g, "null") followed by JSON.parse, on one element
ParseItem(item) ==
    [f \in DOMAIN item |->
        IF item[f] = NaNToken THEN JNull
        ELSE IF item[f] = JStr("NaN") THEN JStr("null")
        ELSE item[f]]

-----------------------------------------------------------------------------
(* The controls as one value, and what render does to them                 *)

Ui ==
    [category |-> form.category, valence |-> form.valence,
     subcategory |-> form.subcategory, flag |-> flagCheckbox,
     tooShort |-> tooShortCheckbox, promotional |-> promotionalCheckbox,
     engagement |-> engagementCheckbox]

SetUi(u) ==
    /\ form' = [category |-> u.category, valence |-> u.valence,
                subcategory |-> u.subcategory]
    /\ flagCheckbox' = u.flag
    /\ tooShortCheckbox' = u.tooShort
    /\ promotionalCheckbox' = u.promotional
    /\ engagementCheckbox' = u.engagement

\* saved.f === true
IsTrue(saved, f) == Get(saved, f) = JBool(TRUE)

\* render without the restore of the flag box from saved.flagged
render_DropsFlag(v, ds, idx, ratings, ui) ==
    IF Len(ds) = 0 THEN clearForm(v, ui)
    ELSE
        LET key == makeKey(ds[idx + 1], idx)
            saved == IF key \in DOMAIN ratings THEN ratings[key] ELSE EmptyObject
            applied == applyToForm(v, ui, saved)
            flagged == [applied EXCEPT !.flag = FALSE]
        IN  IF HasExtraCheckboxes(v)
            THEN [flagged EXCEPT !.tooShort = IsTrue(saved, "tooShort"),
                                 !.promotional = IsTrue(saved, "promotional"),
                                 !.engagement = IsTrue(saved, "engagement")]
            ELSE flagged

render(v, ds, idx, ratings, ui) ==
    IF Len(ds) = 0 THEN clearForm(v, ui)
    ELSE
        LET key == makeKey(ds[idx + 1], idx)
            saved == IF key \in DOMAIN ratings THEN ratings[key] ELSE EmptyObject
            applied == applyToForm(v, ui, saved)
            flagged == [applied EXCEPT !.flag = IsTrue(saved, "flagged")]
        IN  IF HasExtraCheckboxes(v)
            THEN [flagged EXCEPT !.tooShort = IsTrue(saved, "tooShort"),
                                 !.promotional = IsTrue(saved, "promotional"),
                                 !.engagement = IsTrue(saved, "engagement")]
            ELSE flagged

\* go without the clamp at the last item
go_NoUpperClamp(ds, idx, delta) ==
    IF Len(ds) = 0 THEN idx
    ELSE IF idx + delta > 0 THEN idx + delta ELSE 0

\* the cursor go(delta) leaves
go(ds, idx, delta) ==
    IF Len(ds) = 0 THEN idx
    ELSE LET lo == IF idx + delta > 0 THEN idx + delta ELSE 0
         IN  IF lo < Len(ds) - 1 THEN lo ELSE Len(ds) - 1

\* savePartialProgress without its saveState() call
savePartialProgress_NoSaveState(v, ds, idx, ratings, ui, rid, clock, stored, shown) ==
    IF Len(ds) = 0
    THEN [ratingsById |-> ratings, storage |-> stored, progress |-> shown]
    ELSE
        LET written == Upsert(ratings, makeKey(ds[idx + 1], idx),
                              PartialRecord(v, ds[idx + 1], idx, ui, rid, clock))
        IN  [ratingsById |-> written,
             storage |-> stored,
             progress |-> updateProgress(ds, written, idx)]

\* savePartialProgress writing an empty record for the following item as well
savePartialProgress_AlsoNextItem(v, ds, idx, ratings, ui, rid, clock, stored, shown) ==
    IF Len(ds) = 0
    THEN [ratingsById |-> ratings, storage |-> stored, progress |-> shown]
    ELSE
        LET nxt == IF idx + 1 < Len(ds) THEN idx + 1 ELSE idx
            own == Upsert(ratings, makeKey(ds[idx + 1], idx),
                          PartialRecord(v, ds[idx + 1], idx, ui, rid, clock))
            written == IF nxt = idx \/ makeKey(ds[nxt + 1], nxt) \in DOMAIN own
                       THEN own
                       ELSE Upsert(own, makeKey(ds[nxt + 1], nxt),
                                   PartialRecord(v, ds[nxt + 1], nxt,
                                                 clearForm(v, ui), rid, clock))
        IN  [ratingsById |-> written,
             storage |-> saveState(written, rid),
             progress |-> updateProgress(ds, written, idx)]

\* savePartialProgress: the store, the stored item and the progress display it leaves
savePartialProgress(v, ds, idx, ratings, ui, rid, clock, stored, shown) ==
    IF Len(ds) = 0
    THEN [ratingsById |-> ratings, storage |-> stored, progress |-> shown]
    ELSE
        LET written == Upsert(ratings, makeKey(ds[idx + 1], idx),
                              PartialRecord(v, ds[idx + 1], idx, ui, rid, clock))
        IN  [ratingsById |-> written,
             storage |-> saveState(written, rid),
             progress |-> updateProgress(ds, written, idx)]

\* saveCurrent: its result and the store, stored item and progress display it leaves
saveCurrent(v, ds, idx, ratings, ui, rid, clock, stored, shown) ==
    LET unchanged ==
            [ratingsById |-> ratings, storage |-> stored, progress |-> shown]
        checked == validate(v, getFormValues(ui), ui)
    IN  IF Len(ds) = 0
        THEN unchanged @@ [ok |-> FALSE, message |-> "No dataset"]
        ELSE IF ~checked.ok
        THEN unchanged @@ checked
        ELSE
            LET written == Upsert(ratings, makeKey(ds[idx + 1], idx),
                                  StrictRecord(v, ds[idx + 1], idx, ui, rid, clock))
            IN  [ratingsById |-> written,
                 storage |-> saveState(written, rid),
                 progress |-> updateProgress(ds, written, idx),
                 ok |-> TRUE, message |-> ""]

-----------------------------------------------------------------------------
(* Storage a session may start from: nothing, an unreadable item, or the   *)
(* item an earlier session of either variant wrote.                        *)

RatedUi ==
    [category |-> "1", valence |-> "pos", subcategory |-> "", flag |-> FALSE,
     tooShort |-> FALSE, promotional |-> FALSE, engagement |-> FALSE]

\* an earlier legacy session: the first item of two datasets rated before a
\* rater id was typed, then "r1" typed
StorageFromLegacy ==
    LET a == sanitizeItem(ItemsWithIds[1])
        b == sanitizeItem(ParseItem(ItemsWithoutIds[1]))
        first == savePartialProgress("legacy", << a >>, 0, NoStore, RatedUi,
                                     JStr(""), 0, StorageAbsent, 0).ratingsById
        second == savePartialProgress("legacy", << b >>, 0, first, RatedUi,
                                      JStr(""), 0, StorageAbsent, 0).ratingsById
    IN  saveState(second, JStr("r1"))

InitialStorage ==
    { StorageAbsent, StorageCorrupt, StorageNonObject, StorageFromLegacy }

Variants == {"current", "legacy"}

\* the state the script's last lines leave: loadState, (backfill, saveState,) setDataset([])
InitSession ==
    \E v \in Variants, item \in InitialStorage :
        LET started == StartSession(v, item)
        IN  /\ variant = v
            /\ ratingsById = started.ratingsById
            /\ raterId = started.raterId
            /\ storage = started.storage
            /\ dataset = << >>
            /\ index = 0
            /\ form = [category |-> "", valence |-> "", subcategory |-> ""]
            /\ flagCheckbox = FALSE
            /\ tooShortCheckbox = FALSE
            /\ promotionalCheckbox = FALSE
            /\ engagementCheckbox = FALSE
            /\ progress = updateProgress(<< >>, started.ratingsById, 0)
            /\ pending = << >>
            /\ delivered = [items |-> NoItems, late |-> FALSE]
            /\ touched = {}
            /\ lastOp = [name |-> "init", ok |-> ~started.threw, alert |-> FALSE,
                         arg |-> 0]
            /\ now = 0

Init == InitSession /\ raw = << >>

-----------------------------------------------------------------------------
(* Event handlers                                                          *)

HasData == Len(dataset) > 0

\* one more event can be handled
CanHandle == now < MaxEvents

\* one more event handled: what ran and what it reported
Handled(name, ok, alert, arg) ==
    /\ now' = now + 1
    /\ lastOp' = [name |-> name, ok |-> ok, alert |-> alert, arg |-> arg]

\* the saves of the session with one more, made for the item under the cursor
SaveNoted ==
    IF HasData
    THEN touched \cup { << index, makeKey(dataset[index + 1], index) >> }
    ELSE touched

\* the effects of a savePartialProgress() call made with the controls as ui
Autosave(ui) ==
    \E saved \in { savePartialProgress(variant, dataset, index, ratingsById, ui,
                                       raterId, now, storage, progress) } :
        /\ ratingsById' = saved.ratingsById
        /\ storage' = saved.storage
        /\ progress' = saved.progress
        /\ touched' = SaveNoted

\* setDataset(items)
setDataset(items) ==
    \E ds \in { [i \in 1..Len(items) |-> sanitizeItem(items[i])] } :
        /\ dataset' = ds
        /\ index' = 0
        /\ SetUi(render(variant, ds, 0, ratingsById, Ui))
        /\ progress' = updateProgress(ds, ratingsById, 0)

\* a load in flight; overtaken: a load requested after it has already set the dataset
Request(source) == [source |-> source, overtaken |-> FALSE]

\* loadSampleBtn click: the fetch starts
LoadSampleClick ==
    /\ CanHandle
    /\ pending' = Append(pending, Request("sample"))
    /\ Handled("loadSampleClick", TRUE, FALSE, 0)
    /\ UNCHANGED << variant, raw, delivered, touched, dataset, index, form,
                    flagCheckbox, tooShortCheckbox, promotionalCheckbox,
                    engagementCheckbox, ratingsById, raterId, storage, progress >>

\* fileInput change: no file chosen, or the read of the chosen file starts
FileInputChange ==
    /\ CanHandle
    /\ \E chosen \in BOOLEAN :
        /\ pending' = IF chosen THEN Append(pending, Request("file")) ELSE pending
        /\ Handled("fileInputChange", chosen, FALSE, 0)
    /\ UNCHANGED << variant, raw, delivered, touched, dataset, index, form,
                    flagCheckbox, tooShortCheckbox, promotionalCheckbox,
                    engagementCheckbox, ratingsById, raterId, storage, progress >>

RemoveAt(seq, i) == SubSeq(seq, 1, i - 1) \o SubSeq(seq, i + 1, Len(seq))

\* the loads requested before the i-th one see it complete first
Overtake(seq, i) ==
    [j \in 1..Len(seq) |-> IF j < i THEN [seq[j] EXCEPT !.overtaken = TRUE] ELSE seq[j]]

\* a load handler that empties the dataset before it reports a text it cannot use
LoadDelivers_ClearsOnError ==
    /\ CanHandle
    /\ \E i \in 1..Len(pending), text \in DatasetTexts :
        IF text.parse = "array"
        THEN \E json \in { [k \in 1..Len(text.items) |-> ParseItem(text.items[k])] } :
                /\ setDataset(json)
                /\ delivered' = [items |-> json, late |-> pending[i].overtaken]
                /\ pending' = RemoveAt(Overtake(pending, i), i)
                /\ Handled("load", TRUE, FALSE, Len(json))
        ELSE /\ setDataset(NoItems)
             /\ pending' = RemoveAt(pending, i)
             /\ Handled("load", FALSE, TRUE, 0)
             /\ UNCHANGED delivered
    /\ UNCHANGED << variant, raw, ratingsById, raterId, storage, touched >>

\* a load handler that drops the array of a load a later request has overtaken
LoadDelivers_DropsOvertaken ==
    /\ CanHandle
    /\ \E i \in 1..Len(pending), text \in DatasetTexts :
        IF text.parse = "array"
        THEN \E json \in { [k \in 1..Len(text.items) |-> ParseItem(text.items[k])] } :
                /\ IF pending[i].overtaken
                   THEN UNCHANGED << dataset, index, form, flagCheckbox,
                                     tooShortCheckbox, promotionalCheckbox,
                                     engagementCheckbox, progress >>
                   ELSE setDataset(json)
                /\ delivered' = [items |-> json, late |-> pending[i].overtaken]
                /\ pending' = RemoveAt(Overtake(pending, i), i)
                /\ Handled("load", TRUE, FALSE, Len(json))
        ELSE /\ pending' = RemoveAt(pending, i)
             /\ Handled("load", FALSE, TRUE, 0)
             /\ UNCHANGED << dataset, index, form, flagCheckbox, tooShortCheckbox,
                             promotionalCheckbox, engagementCheckbox, progress,
                             delivered >>
    /\ UNCHANGED << variant, raw, ratingsById, raterId, storage, touched >>

\* the rest of a load handler, run when its fetch or file read delivers text
LoadDelivers ==
    /\ CanHandle
    /\ \E i \in 1..Len(pending), text \in DatasetTexts :
        IF text.parse = "array"
        THEN \E json \in { [k \in 1..Len(text.items) |-> ParseItem(text.items[k])] } :
                /\ setDataset(json)
                /\ delivered' = [items |-> json, late |-> pending[i].overtaken]
                /\ pending' = RemoveAt(Overtake(pending, i), i)
                /\ Handled("load", TRUE, FALSE, Len(json))
        ELSE \* JSON.parse or the Array.isArray check throws: the catch alerts
             /\ pending' = RemoveAt(pending, i)
             /\ Handled("load", FALSE, TRUE, 0)
             /\ UNCHANGED << dataset, index, form, flagCheckbox, tooShortCheckbox,
                             promotionalCheckbox, engagementCheckbox, progress,
                             delivered >>
    /\ UNCHANGED << variant, raw, ratingsById, raterId, storage, touched >>

\* the fetch of the sample rejects: the handler's catch alerts
FetchFails ==
    /\ CanHandle
    /\ \E i \in 1..Len(pending) :
        /\ pending[i].source = "sample"
        /\ pending' = RemoveAt(pending, i)
    /\ Handled("fetchFails", FALSE, TRUE, 0)
    /\ UNCHANGED << variant, raw, delivered, touched, dataset, index, form,
                    flagCheckbox, tooShortCheckbox, promotionalCheckbox,
                    engagementCheckbox, ratingsById, raterId, storage, progress >>

\* go(delta); savePartialProgress(): the form is saved under the destination
Navigate_SavesAfterMove(name, delta) ==
    /\ CanHandle
    /\ \E next \in { go(dataset, index, delta) } :
        \E saved \in { savePartialProgress(variant, dataset, next, ratingsById, Ui,
                                            raterId, now, storage, progress) } :
            /\ ratingsById' = saved.ratingsById
            /\ storage' = saved.storage
            /\ progress' = saved.progress
            /\ touched' = SaveNoted
            /\ index' = next
            /\ SetUi(IF next = index THEN Ui
                     ELSE render(variant, dataset, next, saved.ratingsById, Ui))
            /\ Handled(name, next # index, FALSE, delta)
    /\ UNCHANGED << variant, raw, delivered, dataset, raterId, pending >>

\* savePartialProgress(); go(delta)
Navigate(name, delta) ==
    /\ CanHandle
    /\ \E saved \in { savePartialProgress(variant, dataset, index, ratingsById, Ui,
                                          raterId, now, storage, progress) },
          next \in { go(dataset, index, delta) } :
        /\ ratingsById' = saved.ratingsById
        /\ storage' = saved.storage
        /\ progress' = saved.progress
        /\ touched' = SaveNoted
        /\ index' = next
        /\ SetUi(IF next = index THEN Ui
                 ELSE render(variant, dataset, next, saved.ratingsById, Ui))
        /\ Handled(name, next # index, FALSE, delta)
    /\ UNCHANGED << variant, raw, delivered, dataset, raterId, pending >>

\* prevBtn click (render disables the button at the first item)
PrevClick == HasData /\ index > 0 /\ Navigate("prevClick", -1)

\* nextBtn click (render disables the button at the last item)
NextClick == HasData /\ index < Len(dataset) - 1 /\ Navigate("nextClick", 1)

\* keydown ArrowLeft
KeyArrowLeft == Navigate("keyArrowLeft", -1)

\* keydown ArrowRight
KeyArrowRight == Navigate("keyArrowRight", 1)

\* clearBtn click (disabled without a dataset)
ClearClick ==
    /\ CanHandle
    /\ HasData
    /\ \E cleared \in { clearForm(variant, Ui) } :
        SetUi(cleared) /\ Autosave(cleared)
    /\ Handled("clearClick", TRUE, FALSE, 0)
    /\ UNCHANGED << variant, raw, delivered, dataset, index, raterId, pending >>

\* the range check off by one at the last item
JumpInRange_OffByOne(target, len) == target >= 0 /\ target < len - 1

\* the jump handler's range check on target = val - 1
JumpInRange(target, len) == target >= 0 /\ target < len

\* jumpBtn click (disabled without a dataset)
JumpClick ==
    /\ CanHandle
    /\ HasData
    /\ \E txt \in JumpTexts :
        \E val \in { ParseInt(txt) } :
            IF val.nan
            THEN /\ Handled("jumpIgnored", FALSE, FALSE, 0)
                 /\ UNCHANGED << index, form, flagCheckbox, tooShortCheckbox,
                                 promotionalCheckbox, engagementCheckbox,
                                 ratingsById, storage, progress, touched >>
            ELSE IF JumpInRange(val.n - 1, Len(dataset))
            THEN /\ Autosave(Ui)
                 /\ index' = val.n - 1
                 /\ SetUi(render(variant, dataset, val.n - 1, ratingsById', Ui))
                 /\ Handled("jump", TRUE, FALSE, val.n)
            ELSE \* alert(`Please enter a number between 1 and ${dataset.length}.`)
                 /\ Handled("jump", FALSE, TRUE, val.n)
                 /\ UNCHANGED << index, form, flagCheckbox, tooShortCheckbox,
                                 promotionalCheckbox, engagementCheckbox,
                                 ratingsById, storage, progress, touched >>
    /\ UNCHANGED << variant, raw, delivered, dataset, raterId, pending >>

\* ratingsForm change: a radio of the form is checked, then autosave
FormChange ==
    /\ CanHandle
    /\ \E group \in {"category", "valence", "subcategory"} :
        \E value \in (CASE group = "category" -> CategoryValues
                        [] group = "valence" -> ValenceValues
                        [] group = "subcategory" -> SubcategoryValues) :
            /\ form[group] # value
            \* the subcategory group is shown only while the category needs one
            /\ group = "subcategory" => NeedsSub(form.category)
            /\ \E edited \in { [Ui EXCEPT ![group] = value] } :
                SetUi(edited) /\ Autosave(edited)
    /\ Handled("formChange", TRUE, FALSE, 0)
    /\ UNCHANGED << variant, raw, delivered, dataset, index, raterId, pending >>

\* flagCheckbox change
FlagChange ==
    /\ CanHandle
    /\ \E edited \in { [Ui EXCEPT !.flag = ~flagCheckbox] } :
        SetUi(edited) /\ Autosave(edited)
    /\ Handled("flagChange", TRUE, FALSE, 0)
    /\ UNCHANGED << variant, raw, delivered, dataset, index, raterId, pending >>

\* tooShortCheckbox change: checking it resets the radios, then autosave
TooShortChange ==
    /\ CanHandle
    /\ HasExtraCheckboxes(variant)
    /\ \E edited \in { IF ~tooShortCheckbox
                       THEN ResetRadios([Ui EXCEPT !.tooShort = TRUE])
                       ELSE [Ui EXCEPT !.tooShort = FALSE] } :
        SetUi(edited) /\ Autosave(edited)
    /\ Handled("tooShortChange", TRUE, FALSE, 0)
    /\ UNCHANGED << variant, raw, delivered, dataset, index, raterId, pending >>

\* promotionalCheckbox change
PromotionalChange ==
    /\ CanHandle
    /\ HasExtraCheckboxes(variant)
    /\ \E edited \in { [Ui EXCEPT !.promotional = ~promotionalCheckbox] } :
        SetUi(edited) /\ Autosave(edited)
    /\ Handled("promotionalChange", TRUE, FALSE, 0)
    /\ UNCHANGED << variant, raw, delivered, dataset, index, raterId, pending >>

\* engagementCheckbox change
EngagementChange ==
    /\ CanHandle
    /\ HasExtraCheckboxes(variant)
    /\ \E edited \in { [Ui EXCEPT !.engagement = ~engagementCheckbox] } :
        SetUi(edited) /\ Autosave(edited)
    /\ Handled("engagementChange", TRUE, FALSE, 0)
    /\ UNCHANGED << variant, raw, delivered, dataset, index, raterId, pending >>

\* the store the raterIdInput handler leaves once state.raterId is rid
RaterIdBackfill(v, ratings, rid) ==
    IF v = "current" THEN propagateRaterIdAcrossRatings(ratings, rid) ELSE ratings

\* raterIdInput input
RaterIdInput ==
    /\ CanHandle
    /\ \E txt \in RaterTexts :
        \E rid \in { JStr(Join(Trim(txt))) } :
            \E filled \in { RaterIdBackfill(variant, ratingsById, rid) } :
                /\ raterId' = rid
                /\ ratingsById' = filled
                /\ storage' = saveState(filled, rid)
    /\ Handled("raterIdInput", TRUE, FALSE, 0)
    /\ UNCHANGED << variant, raw, delivered, touched, dataset, index, form,
                    flagCheckbox, tooShortCheckbox, promotionalCheckbox,
                    engagementCheckbox, pending, progress >>

\* exportBtn click: exportJson(variant, ratingsById, raterId, dataset, now) goes
\* into a download; nothing of the session changes
ExportClick ==
    /\ CanHandle
    /\ Handled("export", TRUE, FALSE, 0)
    /\ UNCHANGED << variant, raw, delivered, touched, dataset, index, form, flagCheckbox,
                    tooShortCheckbox, promotionalCheckbox, engagementCheckbox,
                    ratingsById, raterId, storage, pending, progress >>

\* a call of saveCurrent() (no control of the page is bound to it)
SaveCurrentCall ==
    /\ CanHandle
    /\ \E saved \in { saveCurrent(variant, dataset, index, ratingsById, Ui, raterId,
                                  now, storage, progress) } :
        /\ ratingsById' = saved.ratingsById
        /\ storage' = saved.storage
        /\ progress' = saved.progress
        /\ touched' = IF saved.ok THEN SaveNoted ELSE touched
        /\ Handled("saveCurrent", saved.ok, ~saved.ok, 0)
    /\ UNCHANGED << variant, raw, delivered, dataset, index, form, flagCheckbox,
                    tooShortCheckbox, promotionalCheckbox, engagementCheckbox,
                    raterId, pending >>

Next ==
    \/ LoadSampleClick
    \/ FileInputChange
    \/ LoadDelivers
    \/ FetchFails
    \/ PrevClick
    \/ NextClick
    \/ KeyArrowLeft
    \/ KeyArrowRight
    \/ ClearClick
    \/ JumpClick
    \/ FormChange
    \/ FlagChange
    \/ TooShortChange
    \/ PromotionalChange
    \/ EngagementChange
    \/ RaterIdInput
    \/ ExportClick

Spec == Init /\ [][Next]_vars

\* the page's handlers together with direct calls of saveCurrent
NextWithStrictSave == Next \/ SaveCurrentCall

SpecStrictSave == Init /\ [][NextWithStrictSave]_vars

\* sessions that start with an empty rating store
InitEmptyStore == Init /\ ratingsById = NoStore

SpecEmptyStore == InitEmptyStore /\ [][NextWithStrictSave]_vars

-----------------------------------------------------------------------------
(* sanitizeItem on its own: (items || []).map(sanitizeItem), one element   *)
(* at a time, over arrays of raw records of every shape JSON.parse gives   *)

\* raw records: null, a number, and objects with and without the two fields
RawItems ==
    << JNull,
       JNum(7),
       EmptyObject,
       [id |-> JNum(1), content |-> JStr("a"), transcription |-> JStr("t")],
       [uid |-> JStr("u"), content |-> JNum(5)],
       [content |-> JNull, transcription |-> JNull],
       [extra |-> JBool(TRUE), transcription |-> JNum(0)],
       [content |-> JStr(""), transcription |-> JStr("")] >>

\* the arrays of up to MaxRaw raw records, as arrays of positions in RawItems
RawChoices == UNION { [1..n -> 1..Len(RawItems)] : n \in 1..MaxRaw }

InitSanitize ==
    /\ InitSession
    /\ \E choice \in RawChoices :
        raw = [i \in 1..Len(choice) |-> RawItems[choice[i]]]

\* map applies sanitizeItem to the next element of the array
SanitizeNext ==
    /\ CanHandle
    /\ Len(dataset) < Len(raw)
    /\ \E call \in { sanitizeItemCall(raw[Len(dataset) + 1]) } :
        /\ dataset' = Append(dataset, call.returned)
        /\ raw' = [raw EXCEPT ![Len(dataset) + 1] = call.argument]
    /\ Handled("sanitizeItem", TRUE, FALSE, Len(dataset) + 1)
    /\ UNCHANGED << variant, delivered, touched, index, form, flagCheckbox,
                    tooShortCheckbox, promotionalCheckbox, engagementCheckbox,
                    ratingsById, raterId, storage, pending, progress >>

\* sanitizeItem applied once more, to an item it returned
SanitizeAgain ==
    /\ CanHandle
    /\ \E k \in 1..Len(dataset) :
        /\ dataset' = [dataset EXCEPT ![k] = sanitizeItemCall(dataset[k]).returned]
        /\ Handled("sanitizeAgain", TRUE, FALSE, k)
    /\ UNCHANGED << variant, raw, delivered, touched, index, form, flagCheckbox,
                    tooShortCheckbox, promotionalCheckbox, engagementCheckbox,
                    ratingsById, raterId, storage, pending, progress >>

NextSanitize == SanitizeNext \/ SanitizeAgain

SpecSanitize == InitSanitize /\ [][NextSanitize]_vars

-----------------------------------------------------------------------------
(* Vocabulary of the properties                                            *)

\* the key of the item under the cursor, as render and the saves compute it
CurrentKey == makeKey(dataset[index + 1], index)

\* handlers that autosave the item under the cursor and leave the cursor alone
EditingOps ==
    { "formChange", "flagChange", "tooShortChange", "promotionalChange",
      "engagementChange", "clearClick" }

\* handlers that autosave the item under the cursor and then move
MovingOps == { "prevClick", "nextClick", "keyArrowLeft", "keyArrowRight" }

\* the last handler wrote to state.ratingsById or state.raterId
LastOpMutated ==
    \/ lastOp.name \in EditingOps \cup MovingOps /\ HasData
    \/ lastOp.name \in {"jump", "saveCurrent"} /\ lastOp.ok
    \/ lastOp.name = "raterIdInput"

\* durable storage holds the serialisation of the session state
Persisted == storage = saveState(ratingsById, raterId)

\* x with "" read as null, as records carry a rater id
RaterOrNull(rid) == IF rid = JStr("") THEN JNull ELSE rid

-----------------------------------------------------------------------------
(* C1: write-through persistence.  Right after a mutating handler (an      *)
(* autosave on a loaded dataset, a successful strict save, a rater-id      *)
(* edit) durable storage holds exactly the serialisation of                *)
(* {ratingsById, raterId}; and in every state the session state is either  *)
(* persisted or still what startup read from storage (nothing mutated).    *)
C1_WriteThrough ==
    /\ LastOpMutated => Persisted
    /\ \/ Persisted
       \/ /\ ratingsById = loadState(storage).ratingsById
          /\ raterId = loadState(storage).raterId

\* an autosave has just written a record on a loaded dataset under a rater id
C1_Witness ==
    /\ lastOp.name = "formChange"
    /\ HasData
    /\ raterId = JStr("r2")
    /\ CurrentKey \in DOMAIN ratingsById
    /\ storage.kind = "object"
    /\ CurrentKey \in DOMAIN storage.ratingsById

(* C2: the rater id is global and retroactive.  Once the rater-id handler  *)
(* has set the rater id to x, every record already in the store has        *)
(* raterId = x (null when x is empty).                                     *)
C2_RaterIdRetroactive ==
    lastOp.name = "raterIdInput" =>
        \A k \in DOMAIN ratingsById :
            Get(ratingsById[k], "raterId") = RaterOrNull(raterId)

\* the record has null category, valence and subcategory
NullRating(r) ==
    /\ Get(r, "category") = JNull
    /\ Get(r, "valence") = JNull
    /\ Get(r, "subcategory") = JNull

(* C3: the too-short invariant.  No stored record has tooShort true and a  *)
(* non-null category, valence or subcategory; a record written by an       *)
(* autosave or a strict save while the too-short box is checked has        *)
(* tooShort true and all three null; and checking the box on an item with  *)
(* category "1" selected yields such a record, complete.                   *)
C3_TooShortNulls ==
    /\ [](\A k \in DOMAIN ratingsById :
            IsTrue(ratingsById[k], "tooShort") => NullRating(ratingsById[k]))
    /\ []((/\ HasData
           /\ tooShortCheckbox
           /\ \/ lastOp.name \in EditingOps
              \/ lastOp.name = "saveCurrent" /\ lastOp.ok)
          => /\ CurrentKey \in DOMAIN ratingsById
             /\ IsTrue(ratingsById[CurrentKey], "tooShort")
             /\ NullRating(ratingsById[CurrentKey]))
    /\ [][(/\ lastOp'.name = "tooShortChange"
           /\ HasData
           /\ form.category = "1"
           /\ ~tooShortCheckbox)
          => /\ tooShortCheckbox'
             /\ IsTrue(ratingsById'[CurrentKey], "tooShort")
             /\ IsTrue(ratingsById'[CurrentKey], "isComplete")
             /\ NullRating(ratingsById'[CurrentKey])]_vars

\* the box was checked on an item whose stored rating was category "1":
\* the record written at a later instant than the load is too short and null
C3_Witness ==
    /\ lastOp.name = "tooShortChange"
    /\ HasData
    /\ tooShortCheckbox
    /\ form.category = ""
    /\ IsTrue(ratingsById[CurrentKey], "tooShort")
    /\ NullRating(ratingsById[CurrentKey])

\* what the claim calls complete, read off the controls
FormIsComplete(ui) ==
    \/ /\ ui.category # ""
       /\ ui.valence # ""
       /\ (NeedsSub(ui.category) => ui.subcategory # "")
    \/ ui.tooShort

(* C4: partial autosave never rejects.  Every handler that autosaves on a  *)
(* loaded dataset leaves a record under the key of the item that was under *)
(* the cursor, whatever the form holds, and its isComplete is true exactly *)
(* when category and valence are present (and subcategory when the         *)
(* category needs one) or the too-short box is checked.                    *)
C4_AutosaveNeverRejects ==
    [][ /\ (lastOp'.name \in EditingOps /\ HasData)
            => /\ CurrentKey \in DOMAIN ratingsById'
               /\ Get(ratingsById'[CurrentKey], "isComplete")
                      = JBool(FormIsComplete(Ui'))
               /\ Get(ratingsById'[CurrentKey], "itemIndex") = JNum(index)
        /\ ((lastOp'.name \in MovingOps \/ (lastOp'.name = "jump" /\ lastOp'.ok))
                /\ HasData)
            => /\ CurrentKey \in DOMAIN ratingsById'
               /\ Get(ratingsById'[CurrentKey], "isComplete")
                      = JBool(FormIsComplete(Ui))
               /\ Get(ratingsById'[CurrentKey], "itemIndex") = JNum(index)
      ]_vars

\* an autosave wrote an incomplete record: the category needs a subcategory
\* and none is chosen
C4_Witness ==
    /\ lastOp.name = "formChange"
    /\ HasData
    /\ form.category = "2"
    /\ form.valence = "pos"
    /\ form.subcategory = ""
    /\ ~tooShortCheckbox
    /\ Get(ratingsById[CurrentKey], "isComplete") = JBool(FALSE)

\* the key the claims give the item at 0-based position pos:
\* "<id>|<uid or empty>", the position standing in for a missing id
PositionalKey(item, pos) ==
    (IF Get(item, "id").t \in {"undefined", "null"}
     THEN ToString(pos) ELSE Get(item, "id").v)
        \o "|"
        \o (IF Get(item, "uid").t \in {"undefined", "null"}
            THEN "" ELSE Get(item, "uid").v)

\* the positions whose record, under the positional key, is complete
DonePositions ==
    { i \in 1..Len(dataset) :
        /\ PositionalKey(dataset[i], i - 1) \in DOMAIN ratingsById
        /\ IsTrue(ratingsById[PositionalKey(dataset[i], i - 1)], "isComplete") }

\* p = round(done / total * 100), halves rounded up
IsRoundedPercent(p, done, total) ==
    /\ 2 * total * p <= 200 * done + total
    /\ 200 * done + total < 2 * total * (p + 1)

(* C5: the progress contract.  The progress displayed reports total = the  *)
(* dataset length, done = the number of positions whose record under the   *)
(* positional key is complete, percent = round(done/total*100), 0 when     *)
(* total is 0.                                                             *)
C5_ProgressContract ==
    /\ progress.total = Len(dataset)
    /\ progress.done = Cardinality(DonePositions)
    /\ IF Len(dataset) = 0 THEN progress.percent = 0
       ELSE IsRoundedPercent(progress.percent, progress.done, progress.total)

(* C6: a successful strict save counts toward progress.  After saveCurrent *)
(* returns ok for the item under the cursor, the progress displayed counts *)
(* that item as done.                                                      *)
C6_StrictSaveCounts ==
    (lastOp.name = "saveCurrent" /\ lastOp.ok)
        => /\ progress.done >= 1
           /\ Truthy(Get(ratingsById[CurrentKey], "isComplete"))

\* category and valence are present, and subcategory when the category needs one
FormIsValid(ui) ==
    /\ ui.category # ""
    /\ ui.valence # ""
    /\ (NeedsSub(ui.category) => ui.subcategory # "")

(* C7 as claimed: strict save writes only if category and valence are      *)
(* present (and subcategory when the category needs one); in every other   *)
(* case it returns ok:false and leaves the store and storage as they were. *)
C7_StrictSaveOnlyValid ==
    [][lastOp'.name = "saveCurrent"
        => IF HasData /\ FormIsValid(Ui)
           THEN lastOp'.ok
           ELSE /\ ~lastOp'.ok
                /\ lastOp'.alert
                /\ ratingsById' = ratingsById
                /\ storage' = storage]_vars

(* C7 amended: strict save writes only if the too-short box is checked or  *)
(* category and valence are present (and subcategory when the category     *)
(* needs one); it then stores a record for the item under the cursor and   *)
(* persists the store.  In every other case, an empty dataset included, it *)
(* returns ok:false with a message and leaves store and storage unchanged. *)
C7_StrictSaveValidOrTooShort ==
    [][lastOp'.name = "saveCurrent"
        => IF HasData /\ (tooShortCheckbox \/ FormIsValid(Ui))
           THEN /\ lastOp'.ok
                /\ CurrentKey \in DOMAIN ratingsById'
                /\ Get(ratingsById'[CurrentKey], "timestamp") = Timestamp(variant, now)
                /\ storage' = saveState(ratingsById', raterId)
           ELSE /\ ~lastOp'.ok
                /\ lastOp'.alert
                /\ ratingsById' = ratingsById
                /\ storage' = storage]_vars

\* strict save was rejected on a loaded dataset: a category but no valence
C7_Witness ==
    /\ lastOp.name = "saveCurrent"
    /\ ~lastOp.ok
    /\ HasData
    /\ form.category # ""
    /\ form.valence = ""

(* C8: key derivation is a function of the item and its own position.  The *)
(* key the code computes for the item at position i is the positional key, *)
(* whatever the cursor is.                                                 *)
C8_KeyOfOwnPosition ==
    \A i \in 1..Len(dataset) :
        makeKey(dataset[i], index) = PositionalKey(dataset[i], i - 1)

(* C9: cursor bounds.  With a dataset loaded 0 <= cursor <= length-1;      *)
(* go(delta) yields cursor+delta clamped into that range, and go(0) the    *)
(* cursor itself.                                                          *)
C9_CursorBounds ==
    HasData =>
        /\ index \in 0..(Len(dataset) - 1)
        /\ \A delta \in (0 - MaxDelta)..MaxDelta :
            LET next == go(dataset, index, delta)
            IN  /\ next \in 0..(Len(dataset) - 1)
                /\ index + delta \in 0..(Len(dataset) - 1) => next = index + delta
                /\ index + delta < 0 => next = 0
                /\ index + delta > Len(dataset) - 1 => next = Len(dataset) - 1
                /\ delta = 0 => next = index

\* ArrowRight at the last item: the move was clamped and the cursor stayed
C9_Witness ==
    /\ lastOp.name = "keyArrowRight"
    /\ ~lastOp.ok
    /\ HasData
    /\ index = Len(dataset) - 1
    /\ index > 0

(* C10: jump is validated, not clamped.  A jump with 1-based input v on N  *)
(* items sets the cursor to v-1 when 1 <= v <= N; for any other v an error *)
(* is reported and cursor, store and storage are left unchanged.           *)
C10_JumpValidated ==
    [][lastOp'.name = "jump"
        => IF 1 <= lastOp'.arg /\ lastOp'.arg <= Len(dataset)
           THEN /\ lastOp'.ok
                /\ ~lastOp'.alert
                /\ index' = lastOp'.arg - 1
           ELSE /\ ~lastOp'.ok
                /\ lastOp'.alert
                /\ index' = index
                /\ ratingsById' = ratingsById
                /\ storage' = storage]_vars

\* "0" was rejected with an alert on a loaded dataset
C10_Witness ==
    /\ lastOp.name = "jump"
    /\ lastOp.arg = 0
    /\ lastOp.alert
    /\ HasData

(* C11: a dataset load resets navigation without fabricating progress.     *)
(* A successful load leaves the cursor at 0 and the rating store as it     *)
(* was, and the progress displayed has done = 0 unless some item of the    *)
(* new dataset has a complete record under its positional key.             *)
C11_LoadResets ==
    [][(lastOp'.name = "load" /\ lastOp'.ok)
        => /\ index' = 0
           /\ ratingsById' = ratingsById
           /\ (DonePositions' = {} => progress'.done = 0)]_vars

(* C12: a failed dataset load is free of side effects.  When the text a    *)
(* load delivers does not parse, or parses to something that is no array,  *)
(* the handler alerts and dataset, cursor, controls, progress, rating      *)
(* store, rater id and durable storage are as they were.                   *)
C12_FailedLoadKeepsState ==
    [][(lastOp'.name = "load" /\ ~lastOp'.ok)
        => /\ lastOp'.alert
           /\ UNCHANGED << dataset, index, form, flagCheckbox, tooShortCheckbox,
                           promotionalCheckbox, engagementCheckbox, progress,
                           ratingsById, raterId, storage >>]_vars

\* a text that cannot be used arrived while the second item of a loaded
\* dataset was on display: the dataset and the cursor are still there
C12_Witness ==
    /\ lastOp.name = "load"
    /\ ~lastOp.ok
    /\ lastOp.alert
    /\ HasData
    /\ index = 1
    /\ CurrentKey \in DOMAIN ratingsById

\* stored items startup cannot read a session state from
UnreadableStorage == { StorageAbsent, StorageCorrupt, StorageNonObject }

(* C13: the startup load fails silently to empty.  From storage with no    *)
(* entry, an entry that does not parse or one that parses to a non-object, *)
(* startup ends with an empty store and rater id "" and lets no error out; *)
(* the session then runs as a fresh one: nothing is read back from the     *)
(* unreadable entry (while it is still there the session state is the      *)
(* fresh one or was never written), every write replaces it by the         *)
(* serialisation of the session state, and every handler leaves storage    *)
(* alone or overwrites it whole.                                           *)
C13_StartupSilent ==
    /\ [](\A item \in UnreadableStorage :
            LET started == StartSession(variant, item)
            IN  /\ started.ratingsById = NoStore
                /\ started.raterId = JStr("")
                /\ ~started.threw)
    /\ [](lastOp.name = "init" => lastOp.ok /\ ~lastOp.alert)
    /\ [](storage \in UnreadableStorage
            => /\ ratingsById = NoStore
               /\ raterId = JStr("")
               /\ ~LastOpMutated)
    /\ [][storage' = storage \/ storage' = saveState(ratingsById', raterId')]_vars

\* a session that started from an unparsable entry has loaded a dataset and
\* exported, the entry still in storage
C13_Witness ==
    /\ storage = StorageCorrupt
    /\ lastOp.name = "export"
    /\ HasData

(* C14: restart round trip.  In every state, startup run on the durable    *)
(* storage as it stands yields the ratingsById (same keys, same fields)    *)
(* and the raterId the session has in memory.                              *)
C14_RestartRoundTrip ==
    LET restarted == StartSession(variant, storage)
    IN  /\ restarted.ratingsById = ratingsById
        /\ restarted.raterId = raterId

\* a session under rater id "r1" has rated an item and moved on
C14_Witness ==
    /\ lastOp.name \in MovingOps
    /\ lastOp.ok
    /\ raterId = JStr("r1")
    /\ touched # {}
    /\ StartSession(variant, storage).ratingsById = ratingsById
    /\ DOMAIN ratingsById # {}

\* the payload an export made in this state puts into the download
Payload == exportJson(variant, ratingsById, raterId, dataset, now)

\* entry e is record r, but for the rater id
IsEntryOf(e, r) ==
    /\ DOMAIN e \ {"raterId"} = DOMAIN r \ {"raterId"}
    /\ \A f \in DOMAIN r \ {"raterId"} : e[f] = r[f]

\* the rater id the claim gives the entry of record r: its own, else the session's
ClaimedRaterId(r) ==
    IF Truthy(Get(r, "raterId")) THEN Get(r, "raterId") ELSE RaterOrNull(raterId)

(* C15: export snapshot.  An export returns one entry for every record of  *)
(* the store, whether or not its key matches an item of the dataset; each  *)
(* entry keeps its record's rater id when the record has one and carries   *)
(* the session rater id otherwise; datasetSize is the dataset length; and  *)
(* the export leaves store and durable storage unchanged.                  *)
C15_ExportSnapshot ==
    [][lastOp'.name = "export"
        => /\ Len(Payload.ratings) = Cardinality(DOMAIN ratingsById)
           /\ \A k \in DOMAIN ratingsById :
                \E i \in 1..Len(Payload.ratings) :
                    /\ IsEntryOf(Payload.ratings[i], ratingsById[k])
                    /\ Get(Payload.ratings[i], "raterId")
                           = ClaimedRaterId(ratingsById[k])
           /\ Payload.datasetSize = JNum(Len(dataset))
           /\ ratingsById' = ratingsById
           /\ storage' = storage]_vars

(* C16: records are never deleted within a session.  No handler, strict    *)
(* save and export included, removes a key from the rating store.          *)
C16_NeverDeleted ==
    [][DOMAIN ratingsById \subseteq DOMAIN ratingsById']_vars

\* Clear ran on an item of a dataset loaded over a store that holds records
\* of other items: they are all still there, the cleared item's too
C16_Witness ==
    /\ lastOp.name = "clearClick"
    /\ HasData
    /\ CurrentKey \in DOMAIN ratingsById
    /\ Cardinality(DOMAIN ratingsById) >= 3

(* C17: autosave precedes every navigation attempt.  A prev/next click or  *)
(* an arrow key on a loaded dataset writes the form as the record of the   *)
(* item under the cursor before the move (its key, its index, the instant  *)
(* of the event), leaves every other record alone, persists the store, and *)
(* moves the cursor by go; it does so also when the move is a no-op.       *)
C17_AutosaveBeforeMove ==
    [][(lastOp'.name \in MovingOps /\ HasData)
        => /\ CurrentKey \in DOMAIN ratingsById'
           /\ Get(ratingsById'[CurrentKey], "itemIndex") = JNum(index)
           /\ Get(ratingsById'[CurrentKey], "timestamp") = Timestamp(variant, now)
           /\ Get(ratingsById'[CurrentKey], "category") =
                  (IF tooShortCheckbox THEN JNull ELSE StrOrNull(form.category))
           /\ Get(ratingsById'[CurrentKey], "flagged") = JBool(flagCheckbox)
           /\ Get(ratingsById'[CurrentKey], "isComplete") = JBool(FormIsComplete(Ui))
           /\ DOMAIN ratingsById' = DOMAIN ratingsById \cup {CurrentKey}
           /\ \A k \in DOMAIN ratingsById \ {CurrentKey} :
                ratingsById'[k] = ratingsById[k]
           /\ storage' = saveState(ratingsById', raterId)
           /\ index' = go(dataset, index, lastOp'.arg)
           /\ lastOp'.ok = (index' # index)]_vars

\* ArrowLeft at the first item: the cursor stayed and the item was saved
C17_Witness ==
    /\ lastOp.name = "keyArrowLeft"
    /\ ~lastOp.ok
    /\ HasData
    /\ index = 0
    /\ CurrentKey \in DOMAIN ratingsById
    /\ Get(ratingsById[CurrentKey], "timestamp") = Timestamp(variant, now - 1)

\* the dataset setDataset makes of a delivered array
Sanitized(items) == [i \in 1..Len(items) |-> sanitizeItem(items[i])]

(* C18: unguarded concurrent loads, the last completion wins.  Loads       *)
(* complete in any order, with edits and navigation in between; in every   *)
(* state the dataset is the array delivered by the load that completed     *)
(* last with a usable text, whichever was requested first; and the         *)
(* completion of a load puts the cursor at 0 and leaves every record of    *)
(* the store, the rater id and durable storage as they were.               *)
C18_LastCompletionWins ==
    /\ [](dataset = Sanitized(delivered.items))
    /\ [][(lastOp'.name = "load" /\ lastOp'.ok)
            => /\ index' = 0
               /\ ratingsById' = ratingsById
               /\ raterId' = raterId
               /\ storage' = storage]_vars

\* two loads were in flight together; the one requested second completed
\* first, an item of its dataset was then saved, and the one requested first
\* completed last: its array is the dataset, and the record is in the store
C18_Witness ==
    /\ lastOp.name = "load"
    /\ lastOp.ok
    /\ delivered.late
    /\ pending = << >>
    /\ index = 0
    /\ \E t \in touched :
        /\ t[2] \in DOMAIN ratingsById
        /\ Get(ratingsById[t[2]], "timestamp") = Timestamp(variant, now - 2)
        /\ \A i \in 1..Len(dataset) : PositionalKey(dataset[i], i - 1) # t[2]

\* the key an exported entry stands under, read off its fields
EntryKey(e) ==
    (IF Get(e, "id").t \in {"undefined", "null"}
     THEN Get(e, "itemIndex").v ELSE Get(e, "id").v)
        \o "|"
        \o (IF Get(e, "uid").t \in {"undefined", "null"}
            THEN "" ELSE Get(e, "uid").v)

\* the exported entries that are complete and belong to an item of the dataset
CompleteEntries ==
    { i \in 1..Len(Payload.ratings) :
        /\ IsTrue(Payload.ratings[i], "isComplete")
        /\ \E p \in 1..Len(dataset) :
            PositionalKey(dataset[p], p - 1) = EntryKey(Payload.ratings[i]) }

\* the items of the dataset that have a complete exported entry
ItemsWithCompleteEntry ==
    { p \in 1..Len(dataset) :
        \E i \in 1..Len(Payload.ratings) :
            /\ IsTrue(Payload.ratings[i], "isComplete")
            /\ PositionalKey(dataset[p], p - 1) = EntryKey(Payload.ratings[i]) }

(* C19: export/progress round trip.  In every state the done count of the  *)
(* progress displayed is the count re-derived from the exported ratings:   *)
(* the complete entries that belong to items of the dataset (or, items     *)
(* that share a record counted once each, the items with such an entry).   *)
C19_ExportProgressRoundTrip ==
    \/ progress.done = Cardinality(CompleteEntries)
    \/ progress.done = Cardinality(ItemsWithCompleteEntry)

\* the positional key of the item at 0-based position pos of the dataset
KeyAt(pos) == PositionalKey(dataset[pos + 1], pos)

\* the session has saved only items of the dataset now loaded, which has two
\* items; the first was saved complete and the cursor is on the second
SecondOfTwoShown ==
    /\ Len(dataset) = 2
    /\ index = 1
    /\ \A t \in touched : t[1] \in {0, 1} /\ t[2] = KeyAt(t[1])
    /\ << 0, KeyAt(0) >> \in touched
    /\ IsTrue(ratingsById[KeyAt(0)], "isComplete")

\* what the export holds then: the record of the first item alone while the
\* second was never saved, and two records once it was, the second item's
\* with isComplete false while its fields are not complete
TouchedOnlyExported ==
    SecondOfTwoShown =>
        IF << 1, KeyAt(1) >> \notin touched
        THEN /\ Len(Payload.ratings) = 1
             /\ EntryKey(Payload.ratings[1]) = KeyAt(0)
        ELSE /\ Len(Payload.ratings) = 2
             /\ \E i \in 1..2 : EntryKey(Payload.ratings[i]) = KeyAt(0)
             /\ ~FormIsComplete(Ui) =>
                    \E i \in 1..2 :
                        /\ EntryKey(Payload.ratings[i]) = KeyAt(1)
                        /\ Get(Payload.ratings[i], "isComplete") = JBool(FALSE)

(* C20 as claimed: a record exists only for touched items.  In a session   *)
(* started from an empty store the export of the two-item scenario holds   *)
(* one record while index 1 was never saved and two, the second            *)
(* incomplete, once it was; and the store has a record under the key of an *)
(* item of the dataset only if a save ran while that item was under the    *)
(* cursor.                                                                 *)
C20_RecordOnlyIfItemTouched ==
    /\ TouchedOnlyExported
    /\ \A p \in 1..Len(dataset) :
        KeyAt(p - 1) \in DOMAIN ratingsById => << p - 1, KeyAt(p - 1) >> \in touched

(* C20 amended: in a session started from an empty store the export of the *)
(* two-item scenario holds one record while index 1 was never saved and    *)
(* two, the second incomplete, once it was; and the store has a record     *)
(* under a key only if a save ran while an item with that key was under    *)
(* the cursor.                                                             *)
C20_RecordOnlyIfKeyTouched ==
    /\ TouchedOnlyExported
    /\ \A k \in DOMAIN ratingsById : \E t \in touched : t[2] = k

\* the first of two items was saved complete, the second shown and flagged
\* without a rating: the export holds two records, the second incomplete
C20_Witness ==
    /\ SecondOfTwoShown
    /\ << 1, KeyAt(1) >> \in touched
    /\ lastOp.name = "flagChange"
    /\ ~FormIsComplete(Ui)
    /\ Len(Payload.ratings) = 2

\* the items at 1-based positions p and q both have an id, and the same id and uid
SameIdAndUid(p, q) ==
    /\ Get(dataset[p], "id").t \notin {"undefined", "null"}
    /\ Get(dataset[p], "id") = Get(dataset[q], "id")
    /\ Get(dataset[p], "uid") = Get(dataset[q], "uid")

\* the cursor values of the loaded dataset
Cursors == 0..(Len(dataset) - 1)

(* C21: items with equal id and uid share one record.  For two positions   *)
(* whose items have the same id and uid the keys are equal whatever the    *)
(* cursor, the form render shows at one is the form it shows at the other, *)
(* a save made at either leaves its record under the key of both, and the  *)
(* progress displayed after a save that left the shared record complete    *)
(* counts both positions.                                                  *)
C21_SharedRecord ==
    /\ [](\A p, q \in 1..Len(dataset) :
            SameIdAndUid(p, q) =>
                /\ \A c, d \in Cursors :
                    makeKey(dataset[p], c) = makeKey(dataset[q], d)
                /\ render(variant, dataset, p - 1, ratingsById, Ui)
                       = render(variant, dataset, q - 1, ratingsById, Ui))
    /\ [][(lastOp'.name \in EditingOps /\ HasData)
            => \A q \in 1..Len(dataset) :
                (q # index + 1 /\ SameIdAndUid(index + 1, q)) =>
                    LET shared == ratingsById'[KeyAt(q - 1)]
                    IN  /\ KeyAt(q - 1) \in DOMAIN ratingsById'
                        /\ Get(shared, "itemIndex") = JNum(index)
                        /\ Get(shared, "timestamp") = Timestamp(variant, now)
                        /\ IsTrue(shared, "isComplete") => progress'.done >= 2]_vars

\* a rating was completed at the second of two positions with the same id and
\* uid: the record under the key of the first is the one just written there
C21_Witness ==
    /\ lastOp.name \in EditingOps
    /\ HasData
    /\ index = 1
    /\ SameIdAndUid(1, 2)
    /\ Get(ratingsById[KeyAt(0)], "itemIndex") = JNum(1)
    /\ IsTrue(ratingsById[KeyAt(0)], "isComplete")
    /\ progress.done >= 2

\* the fields of a raw record: none for null or a number
FieldsOf(x) == IF IsPrimitive(x) THEN {} ELSE DOMAIN x

\* y is what the claim says sanitize returns for the raw record x
IsSanitized(x, y) ==
    /\ ~IsPrimitive(y)
    /\ DOMAIN y = FieldsOf(x) \cup {"content", "transcription"}
    /\ y.content.t = "string"
    /\ IF "content" \in FieldsOf(x) /\ x.content.t = "string"
       THEN y.content = x.content
       ELSE y.content = JStr("")
    /\ y.transcription.t \in {"string", "null"}
    /\ IF "transcription" \in FieldsOf(x) /\ x.transcription.t = "string"
       THEN y.transcription = x.transcription
       ELSE y.transcription = JNull
    /\ \A f \in FieldsOf(x) \ {"content", "transcription"} : y[f] = x[f]

(* C22: the sanitizer is total and idempotent.  For every raw record, null *)
(* and records with missing or non-string content or transcription         *)
(* included, sanitizeItem returns an item whose content is a string (""    *)
(* when the raw content is no string), whose transcription is a string or  *)
(* null, and whose other fields are those of the raw record; the raw       *)
(* record is as it was after the call; and sanitizing a sanitized item     *)
(* returns it unchanged.                                                   *)
C22_SanitizerIdempotent ==
    /\ [](\A k \in 1..Len(dataset) :
            /\ IsSanitized(raw[k], dataset[k])
            /\ sanitizeItem(dataset[k]) = dataset[k])
    /\ [][raw' = raw]_vars
    /\ [][lastOp'.name = "sanitizeAgain" => dataset' = dataset]_vars

\* null and a record with a number as content were sanitized, and the
\* second item sanitized again: its content is ""
C22_Witness ==
    /\ lastOp.name = "sanitizeAgain"
    /\ lastOp.arg = 2
    /\ Len(dataset) = 2
    /\ raw[1] = JNull
    /\ raw[2] = RawItems[5]
    /\ dataset[1] = [content |-> JStr(""), transcription |-> JNull]
    /\ dataset[2].content = JStr("")

\* the fields of the object literal savePartialProgress stores
PartialRecordFields ==
    {"itemIndex", "id", "uid", "category", "valence", "subcategory", "flagged",
     "isComplete", "raterId", "timestamp"}
        \cup (IF HasExtraCheckboxes(variant)
              THEN {"tooShort", "promotional", "engagement"} ELSE {})

(* C23: Clear replaces, it does not delete.  Clear on a loaded dataset     *)
(* leaves under the key of the item shown a record made anew (the fields   *)
(* of an autosave, this cursor, this instant) with category, valence and   *)
(* subcategory null, tooShort, promotional and engagement false (the       *)
(* legacy script has no such fields) and isComplete false; no key leaves   *)
(* the store, the store is persisted, and an item that was complete is no  *)
(* longer counted by the progress displayed.                               *)
C23_ClearReplaces ==
    [][lastOp'.name = "clearClick"
        => /\ HasData
           /\ DOMAIN ratingsById' = DOMAIN ratingsById \cup {CurrentKey}
           /\ LET cleared == ratingsById'[CurrentKey]
              IN  /\ DOMAIN cleared = PartialRecordFields
                  /\ NullRating(cleared)
                  /\ \A f \in {"tooShort", "promotional", "engagement"} :
                        Get(cleared, f) = (IF HasExtraCheckboxes(variant)
                                           THEN JBool(FALSE) ELSE JUndef)
                  /\ Get(cleared, "isComplete") = JBool(FALSE)
                  /\ Get(cleared, "itemIndex") = JNum(index)
                  /\ Get(cleared, "timestamp") = Timestamp(variant, now)
           /\ \A k \in DOMAIN ratingsById \ {CurrentKey} :
                ratingsById'[k] = ratingsById[k]
           /\ storage' = saveState(ratingsById', raterId)
           /\ progress'.done <= Len(dataset) - 1
           /\ (CurrentKey \in DOMAIN ratingsById
                    /\ IsTrue(ratingsById[CurrentKey], "isComplete"))
                => progress'.done
                       < updateProgress(dataset, ratingsById, index).done]_vars

\* Clear ran on the item shown, after at least three other events: its
\* record is in the store and in storage, empty and incomplete, written at
\* the instant of the click, and nothing counts as done
C23_Witness ==
    /\ lastOp.name = "clearClick"
    /\ << index, CurrentKey >> \in touched
    /\ NullRating(ratingsById[CurrentKey])
    /\ Get(storage.ratingsById[CurrentKey], "isComplete") = JBool(FALSE)
    /\ Get(ratingsById[CurrentKey], "timestamp") = Timestamp(variant, now - 1)
    /\ form = [category |-> "", valence |-> "", subcategory |-> ""]
    /\ progress.done = 0
    /\ now >= 4

\* the fields of a record that hold the rating
RatingFields ==
    {"category", "valence", "subcategory", "flagged", "tooShort", "promotional",
     "engagement", "isComplete"}

\* the rating a record holds
Rating(r) == [f \in RatingFields |-> Get(r, f)]

\* the record under key k was written by a partial autosave of this session
Autosaved(k) ==
    /\ k \in DOMAIN ratingsById
    /\ "isComplete" \in DOMAIN ratingsById[k]
    /\ \E t \in touched : t[2] = k

\* handlers that move the cursor after an autosave
IsNavigation(op) == op.name \in MovingOps \/ (op.name = "jump" /\ op.ok)

(* C24: the navigation round trip is lossless.  A prev, next, arrow-key or *)
(* jump step leaves the rating (category, valence, subcategory, flagged,   *)
(* tooShort, promotional, engagement, isComplete) of every record written  *)
(* by partial autosave as it was, though it autosaves the item it leaves;  *)
(* and whenever the item shown has such a record the controls hold that    *)
(* rating, so that any sequence of such steps away and back changes none.  *)
C24_NavigationLossless ==
    /\ [][IsNavigation(lastOp')
            => \A k \in DOMAIN ratingsById :
                Autosaved(k) => Rating(ratingsById'[k]) = Rating(ratingsById[k])]_vars
    /\ []((HasData /\ Autosaved(CurrentKey))
            => Rating(PartialRecord(variant, dataset[index + 1], index, Ui,
                                    raterId, now))
                   = Rating(ratingsById[CurrentKey]))

\* the first item was rated complete, left by Next and come back to by Prev:
\* the record, rewritten on leaving, is complete and the controls show it
C24_Witness ==
    /\ lastOp.name = "prevClick"
    /\ lastOp.ok
    /\ index = 0
    /\ << 0, CurrentKey >> \in touched
    /\ \E t \in touched : t[1] = 1
    /\ Autosaved(CurrentKey)
    /\ IsTrue(ratingsById[CurrentKey], "isComplete")
    /\ Get(ratingsById[CurrentKey], "timestamp") = Timestamp(variant, now - 2)
    /\ FormIsComplete(Ui)

\* a record without its raterId field
WithoutRaterId(r) == [f \in DOMAIN r \ {"raterId"} |-> r[f]]

(* C25: the frame of a rater-id edit.  A raterIdInput step changes only    *)
(* the session raterId and the raterId field of stored records: the keys   *)
(* of the store, every other field of every record (category, valence,     *)
(* subcategory, the flags, isComplete, itemIndex, timestamp), the dataset, *)
(* the cursor, and the progress count, both as displayed and as a fresh    *)
(* count would give it, are unchanged.                                     *)
C25_RaterIdFrame ==
    [][lastOp'.name = "raterIdInput"
        => /\ DOMAIN ratingsById' = DOMAIN ratingsById
           /\ \A k \in DOMAIN ratingsById :
                WithoutRaterId(ratingsById'[k]) = WithoutRaterId(ratingsById[k])
           /\ dataset' = dataset
           /\ index' = index
           /\ progress' = progress
           /\ updateProgress(dataset', ratingsById', index').done
                = updateProgress(dataset, ratingsById, index).done]_vars

\* after an edit of the rater id to "r2", a complete record written in this
\* session carries that id and is counted in the progress
C25_Witness ==
    /\ lastOp.name = "raterIdInput"
    /\ variant = "current"
    /\ HasData
    /\ raterId = JStr("r2")
    /\ progress.done >= 1
    /\ \E k \in DOMAIN ratingsById :
        /\ \E t \in touched : t[2] = k
        /\ Get(ratingsById[k], "raterId") = JStr("r2")
        /\ IsTrue(ratingsById[k], "isComplete")

====
